---- MODULE Spec2Model ----
(***************************************************************************)
(* A model of sr2latex.py: the apparatus index builders (make_applookup,   *)
(* make_annolookup), the reading renderer (_lwrap), the variant-location   *)
(* resolver (_get_vreadings), the comment span (_get_rdgspan) and the      *)
(* document assembler (generate_latex).                                    *)
(*                                                                         *)
(* Conventions.                                                            *)
(*  - A Python dict with optional keys is a TLA+ record; `k in d` is       *)
(*    k \in DOMAIN d and d.get(k, default) is Get(d, k, default).          *)
(*  - A value that may be None is <<>> (None) or <<v>> (the value v).      *)
(*  - A Python string is a TLA+ string; a string that the code builds up   *)
(*    with += is kept as the sequence of the pieces appended, in order     *)
(*    (Str flattens it, StrLen is its len()).                              *)
(***************************************************************************)
EXTENDS Integers, Sequences, FiniteSets, TLC

VARIABLES
    pc,             \* position of the script: "applookup", "annolookup", "generate", "print", "done", "error"
    baselist,       \* input: the base-reading list
    variantlist,    \* input: the list under the 'variantlist' key
    annotationlist, \* input: the annotation list
    langtag,        \* input: args.language, None or a tag
    applist,        \* make_applookup's table: reading id -> list of variant locations
    annolist,       \* make_annolookup's table: decimal id -> list of annotations
    idx,            \* generate_latex: index of the next base reading of the for loop
    output,         \* generate_latex: the output accumulator (pieces appended so far)
    join_next,      \* generate_latex: the join_next flag carried to the next reading
    translation,    \* generate_latex: the translation list (one entry per reading done)
    segStart,       \* Len(output) at the start of each loop iteration done, and at loop exit
    stdout,         \* the strings passed to print so far
    err,            \* the message of the exception that ended the run, "" if none
    fn_in,          \* argument tuple of the function under test (function specifications)
    fn_out          \* its result, <<>> before the call

vars == <<pc, baselist, variantlist, annotationlist, langtag, applist, annolist, idx,
          output, join_next, translation, segStart, stdout, err, fn_in, fn_out>>

----------------------------------------------------------------------------
(* Bounds of the model.                                                    *)

MaxBase == 2
MaxVar == 2
MaxAnn == 2
MaxRdgs == 3
MaxVariants == 2
MaxSpanBase == 3
MaxJoinBase == 3

----------------------------------------------------------------------------
(* Python primitives.                                                      *)

None == <<>>
Some(v) == <<v>>

Get(d, k, default) == IF k \in DOMAIN d THEN d[k] ELSE default

Digit(d) ==
    CASE d = 0 -> "0" [] d = 1 -> "1" [] d = 2 -> "2" [] d = 3 -> "3" [] d = 4 -> "4"
      [] d = 5 -> "5" [] d = 6 -> "6" [] d = 7 -> "7" [] d = 8 -> "8" [] d = 9 -> "9"

RECURSIVE FormatNat(_)
FormatNat(n) == IF n < 10 THEN Digit(n) ELSE FormatNat(n \div 10) \o Digit(n % 10)

\* "%d" % n
FormatD(n) == IF n < 0 THEN "-" \o FormatNat(0 - n) ELSE FormatNat(n)

RECURSIVE Str(_)
Str(pieces) == IF pieces = <<>> THEN "" ELSE Head(pieces) \o Str(Tail(pieces))

RECURSIVE StrLen(_)
StrLen(pieces) == IF pieces = <<>> THEN 0 ELSE Len(Head(pieces)) + StrLen(Tail(pieces))

\* sep.join(strs)
RECURSIVE JoinStr(_, _)
JoinStr(sep, strs) ==
    IF strs = <<>> THEN ""
    ELSE IF Len(strs) = 1 THEN strs[1]
    ELSE strs[1] \o sep \o JoinStr(sep, Tail(strs))

\* What `raise(obj)` raises: obj itself when it is an exception, else Python's
\* TypeError, since a str is no exception.
TypeErrorNotException == "TypeError: exceptions must derive from BaseException"
TypeErrorFormatD == "TypeError: %d format: a real number is required, not NoneType"

----------------------------------------------------------------------------
(* Labels, link types and fixed output texts.                              *)

COMMENT == "COMMENT"
TRANSLATION == "TRANSLATION"
BEGIN == "BEGIN"
END == "END"

Header == "\\begin{pairs}\n\\begin{Leftside}\n\\beginnumbering\n\\pstart\n"
Middle == "\n\\pend\n\\endnumbering\n\\end{Leftside}\n\\begin{Rightside}\n\\beginnumbering\n\\pstart\n"
Footer == "\n\\pend\n\\endnumbering\n\\end{Rightside}\n\\end{pairs}\n"

----------------------------------------------------------------------------
(* Apparatus Index Builder.                                                *)

\* Mutant of AnchorId: the first reading of the base chain instead of the last.
AnchorIdFirst(v) ==
    IF "base" \in DOMAIN v THEN v.base[1].id ELSE v.after.id

\* The reading id a variant location is hashed on.
AnchorId(v) ==
    IF "base" \in DOMAIN v THEN v.base[Len(v.base)].id ELSE v.after.id

AppInsert(applookup, v) ==
    LET rid == AnchorId(v) IN
    IF rid \in DOMAIN applookup
    THEN [applookup EXCEPT ![rid] = Append(@, v)]
    ELSE applookup @@ (rid :> <<v>>)

RECURSIVE AppLoop(_, _)
AppLoop(applookup, vs) ==
    IF vs = <<>> THEN applookup ELSE AppLoop(AppInsert(applookup, Head(vs)), Tail(vs))

make_applookup(vlist) == AppLoop(<<>>, vlist)

RECURSIVE _get_target(_, _)
_get_target(links, ltype) ==
    IF links = <<>> THEN None
    ELSE IF Head(links).type = ltype THEN Some(Head(links).target)
    ELSE _get_target(Tail(links), ltype)

AnnoInsert(annolookup, ann) ==
    LET anchor == _get_target(ann.links, END) IN
    IF anchor # None
    THEN LET akey == FormatD(anchor[1]) IN
         IF akey \in DOMAIN annolookup
         THEN [annolookup EXCEPT ![akey] = Append(@, ann)]
         ELSE annolookup @@ (akey :> <<ann>>)
    ELSE annolookup

RECURSIVE AnnoLoop(_, _)
AnnoLoop(annolookup, anns) ==
    IF anns = <<>> THEN annolookup
    ELSE AnnoLoop(AnnoInsert(annolookup, Head(anns)), Tail(anns))

make_annolookup(alist) == AnnoLoop(<<>>, alist)

----------------------------------------------------------------------------
(* Reading Renderer.                                                       *)

\* The one non-ASCII text of the model, the Greek word logos, written here by its
\* code points (the module itself keeps to ASCII).
NonAsciiText == "<U+03BB U+03CC U+03B3 U+03BF U+03C2>"
AsciiLimit == 128

\* The largest ord(c) over the characters of a piece: U+03CC (972) for the
\* non-ASCII text; every other piece of the model is ASCII, with "}" (125) at most.
HighestOrd(piece) == IF piece = NonAsciiText THEN 972 ELSE IF piece = "" THEN 0 ELSE 125

_is_ascii(st) == \A i \in DOMAIN st : ~(HighestOrd(st[i]) > AsciiLimit)

ReadingText(r) == Get(r, "normal_form", r.text)

\* Mutant of LwrapLoop: a reading's join_next flag is not carried to the next one.
RECURSIVE LwrapLoopNoCarry(_, _, _)
LwrapLoopNoCarry(rdgs, st, jn) ==
    IF rdgs = <<>> THEN st
    ELSE LET r == Head(rdgs)
             rtext == ReadingText(r)
             st2 == IF jn \/ Get(r, "join_prior", FALSE) \/ StrLen(st) = 0
                    THEN Append(st, rtext)
                    ELSE st \o <<" ", rtext>>
         IN LwrapLoopNoCarry(Tail(rdgs), st2, FALSE)

RECURSIVE LwrapLoop(_, _, _)
LwrapLoop(rdgs, st, jn) ==
    IF rdgs = <<>> THEN st
    ELSE LET r == Head(rdgs)
             rtext == ReadingText(r)
             st2 == IF jn \/ Get(r, "join_prior", FALSE) \/ StrLen(st) = 0
                    THEN Append(st, rtext)
                    ELSE st \o <<" ", rtext>>
         IN LwrapLoop(Tail(rdgs), st2, Get(r, "join_next", FALSE))

_lwrap(tag, rdgs) ==
    LET st == LwrapLoop(rdgs, <<>>, FALSE) IN
    IF tag = None \/ _is_ascii(st) THEN Str(st)
    ELSE "\\" \o tag[1] \o "{" \o Str(st) \o "}"

----------------------------------------------------------------------------
(* Witness Formatter.                                                      *)

\* Every siglum string of the model, in the order of Python's string comparison.
SiglaOrder == <<"A", "A (corr)", "B", "B (corr)">>

SiglumRank(s) == CHOOSE i \in DOMAIN SiglaOrder : SiglaOrder[i] = s

RECURSIVE InsertSorted(_, _)
InsertSorted(s, x) ==
    IF s = <<>> THEN <<x>>
    ELSE IF SiglumRank(x) < SiglumRank(Head(s)) THEN <<x>> \o s
    ELSE <<Head(s)>> \o InsertSorted(Tail(s), x)

\* sorted(sigla)
RECURSIVE Sorted(_)
Sorted(sigla) == IF sigla = <<>> THEN <<>> ELSE InsertSorted(Sorted(Tail(sigla)), Head(sigla))

Labelled(xs, k) == [i \in DOMAIN xs |-> xs[i] \o " (" \o k \o ")"]

RECURSIVE WitLoop(_, _)
WitLoop(witlist, keys) ==
    IF keys = {} THEN <<>>
    ELSE LET k == CHOOSE x \in keys : TRUE IN
         (IF k = "witnesses" THEN witlist[k] ELSE Labelled(witlist[k], k))
             \o WitLoop(witlist, keys \ {k})

_make_witstr(witlist) == JoinStr(" ", Sorted(WitLoop(witlist, DOMAIN witlist)))

----------------------------------------------------------------------------
(* Variant-Location Resolver.                                              *)

_get_lemmareadings(vloc) ==
    IF "base" \in DOMAIN vloc THEN vloc.base ELSE <<vloc.before, vloc.after>>

\* The classification generate_latex passes as `special`.
Special(vloc) ==
    IF ~("base" \in DOMAIN vloc) THEN Some("add")
    ELSE IF Get(vloc, "has_displacement", FALSE) THEN Some("transp")
    ELSE None

\* Mutant of VariantText: equal ranks count as "prae".
VariantTextLeq(v, tag, special) ==
    LET txt == IF ~("readings" \in DOMAIN v) THEN "\\emph{om.}"
               ELSE IF special = Some("transp") /\ Get(v, "displaced", FALSE)
               THEN "\\emph{transp. "
                    \o (IF v.readings[1].rank <= v.anchor.rank THEN "prae} " ELSE "post} ")
                    \o _lwrap(tag, <<v.anchor>>)
               ELSE _lwrap(tag, v.readings)
    IN IF special = Some("add") THEN txt \o " \\emph{add.}" ELSE txt

VariantText(v, tag, special) ==
    LET txt == IF ~("readings" \in DOMAIN v) THEN "\\emph{om.}"
               ELSE IF special = Some("transp") /\ Get(v, "displaced", FALSE)
               THEN "\\emph{transp. "
                    \o (IF v.readings[1].rank < v.anchor.rank THEN "prae} " ELSE "post} ")
                    \o _lwrap(tag, <<v.anchor>>)
               ELSE _lwrap(tag, v.readings)
    IN IF special = Some("add") THEN txt \o " \\emph{add.}" ELSE txt

_get_vreadings(vloc, tag, special) ==
    JoinStr("; ", [i \in DOMAIN vloc.variants |->
                      _make_witstr(vloc.variants[i].witnesses) \o " "
                          \o VariantText(vloc.variants[i], tag, special)])

----------------------------------------------------------------------------
(* Comment span and translation lookup.                                    *)

RECURSIVE SpanLoop(_, _, _, _, _)
SpanLoop(rs, begin, end, span, in_span) ==
    IF rs = <<>> THEN span
    ELSE LET r == Head(rs)
             in1 == IF r.id = begin THEN TRUE ELSE in_span
             span1 == IF in1 THEN Append(span, r) ELSE span
             in2 == IF r.id = end THEN FALSE ELSE in1
         IN SpanLoop(Tail(rs), begin, end, span1, in2)

\* [raised |-> message or "", value |-> the span]
_get_rdgspan(base, annotation) ==
    LET b == _get_target(annotation.links, BEGIN)
        e == _get_target(annotation.links, END)
    IN IF b = None \/ e = None THEN [raised |-> TypeErrorFormatD, value |-> <<>>]
       ELSE [raised |-> "",
             value |-> SpanLoop(base, FormatD(b[1]), FormatD(e[1]), <<>>, FALSE)]

\* Mutant of WithLabel: the label is not looked at.
WithLabelAny(anns, label) == anns

WithLabel(anns, label) == SelectSeq(anns, LAMBDA x : x.label = label)

\* What line 190's raise of a str object raises.
RaiseStr(message) == TypeErrorNotException

\* Mutant of _get_translation_to: the annotations ending at the reading are not
\* filtered by label.
TranslationOfAnyLabel(annos, rdgid) ==
    IF rdgid \in DOMAIN annos
    THEN IF Len(annos[rdgid]) > 1
         THEN [raised |-> RaiseStr("Multiple translations terminating at reading " \o rdgid),
               value |-> None]
         ELSE [raised |-> "", value |-> Some(annos[rdgid][1].properties.text)]
    ELSE [raised |-> "", value |-> None]

\* [raised |-> message or "", value |-> None or Some(text)]
_get_translation_to(annos, rdgid) ==
    IF rdgid \in DOMAIN annos
    THEN LET transannos == WithLabel(annos[rdgid], TRANSLATION) IN
         IF Len(transannos) > 1
         THEN [raised |-> RaiseStr("Multiple translations terminating at reading " \o rdgid),
               value |-> None]
         ELSE IF Len(transannos) # 0
         THEN [raised |-> "", value |-> Some(transannos[1].properties.text)]
         ELSE [raised |-> "", value |-> None]
    ELSE [raised |-> "", value |-> None]

----------------------------------------------------------------------------
(* Document Assembler: generate_latex, one action per step of the script.  *)

AfootPiece(vloc, tag) ==
    "{\\lemma{" \o _lwrap(tag, _get_lemmareadings(vloc)) \o "} \\Afootnote{"
        \o _get_vreadings(vloc, tag, Special(vloc)) \o "}}"

BfootPiece(base, c, tag) ==
    "{\\lemma{" \o _lwrap(tag, _get_rdgspan(base, c).value) \o "} \\Bfootnote{"
        \o c.properties.text \o "}}"

EdtextOpen(r, tag) == "\\edtext{" \o _lwrap(tag, <<r>>) \o "}{"

\* applist = make_applookup(get_variants(args))
MakeApplookup ==
    /\ pc = "applookup"
    /\ applist' = make_applookup(variantlist)
    /\ pc' = "annolookup"
    /\ UNCHANGED <<baselist, variantlist, annotationlist, langtag, annolist, idx, output,
                   join_next, translation, segStart, stdout, err, fn_in, fn_out>>

\* annotations = make_annolookup(get_annotations(args))
MakeAnnolookup ==
    /\ pc = "annolookup"
    /\ annolist' = make_annolookup(annotationlist)
    /\ pc' = "generate"
    /\ UNCHANGED <<baselist, variantlist, annotationlist, langtag, applist, idx, output,
                   join_next, translation, segStart, stdout, err, fn_in, fn_out>>

\* generate_latex is entered: its accumulators are set up.
GenBegin ==
    /\ pc = "generate"
    /\ translation' = <<>>
    /\ output' = <<Header>>
    /\ join_next' = FALSE
    /\ idx' = 1
    /\ segStart' = <<>>
    /\ pc' = "loop"
    /\ UNCHANGED <<baselist, variantlist, annotationlist, langtag, applist, annolist,
                   stdout, err, fn_in, fn_out>>

\* Mutant of Abort: what was accumulated is printed before the run ends.
AbortFlushing(message) ==
    /\ pc' = "error"
    /\ err' = message
    /\ stdout' = Append(stdout, Str(output))
    /\ UNCHANGED <<baselist, variantlist, annotationlist, langtag, applist, annolist, idx,
                   output, join_next, translation, segStart, fn_in, fn_out>>

Abort(message) ==
    /\ pc' = "error"
    /\ err' = message
    /\ UNCHANGED <<baselist, variantlist, annotationlist, langtag, applist, annolist, idx,
                   output, join_next, translation, segStart, stdout, fn_in, fn_out>>

\* One iteration of `for r in baselist`.
GenStep ==
    /\ pc = "loop"
    /\ idx <= Len(baselist)
    /\ LET r == baselist[idx]
           sp == IF ~(join_next \/ Get(r, "join_prior", FALSE) \/ StrLen(output) = 0)
                 THEN <<" ">> ELSE <<>>
           vhere == Get(applist, r.id, <<>>)
           comments == IF r.id \in DOMAIN annolist
                       THEN WithLabel(annolist[r.id], COMMENT) ELSE <<>>
           tr == _get_translation_to(annolist, r.id)
           wrap == Len(vhere) > 0 \/ Len(comments) > 0
           spanRaises == \E i \in DOMAIN comments :
                             _get_rdgspan(baselist, comments[i]).raised # ""
           body == IF wrap
                   THEN <<EdtextOpen(r, langtag)>>
                        \o [i \in DOMAIN vhere |-> AfootPiece(vhere[i], langtag)]
                        \o [i \in DOMAIN comments |-> BfootPiece(baselist, comments[i], langtag)]
                        \o <<"}">>
                   ELSE <<_lwrap(langtag, <<r>>)>>
       IN IF tr.raised # "" THEN Abort(tr.raised)
          ELSE IF wrap /\ spanRaises THEN Abort(TypeErrorFormatD)
          ELSE /\ translation' = Append(translation, tr.value)
               /\ output' = output \o sp \o body
               /\ segStart' = Append(segStart, Len(output))
               /\ join_next' = Get(r, "join_next", FALSE)
               /\ idx' = idx + 1
               /\ UNCHANGED <<pc, baselist, variantlist, annotationlist, langtag, applist,
                              annolist, stdout, err, fn_in, fn_out>>

NotNone(ts) == SelectSeq(ts, LAMBDA t : t # None)

\* Mutant of GenFinish: with no translation recorded, only the left stream is
\* printed, without the parallel-text structure.
GenFinishLeftOnly ==
    /\ pc = "loop"
    /\ idx > Len(baselist)
    /\ LET ts == NotNone(translation)
           final == output \o <<Middle, JoinStr(" ", [i \in DOMAIN ts |-> ts[i][1]]), Footer>>
       IN /\ output' = final
          /\ stdout' = Append(stdout, IF ts = <<>> THEN Str(Tail(output)) ELSE Str(final))
    /\ segStart' = Append(segStart, Len(output))
    /\ pc' = "done"
    /\ UNCHANGED <<baselist, variantlist, annotationlist, langtag, applist, annolist, idx,
                   join_next, translation, err, fn_in, fn_out>>

\* After the loop: the right side is appended and the whole output printed.
GenFinish ==
    /\ pc = "loop"
    /\ idx > Len(baselist)
    /\ LET ts == NotNone(translation)
           final == output \o <<Middle, JoinStr(" ", [i \in DOMAIN ts |-> ts[i][1]]), Footer>>
       IN /\ output' = final
          /\ stdout' = Append(stdout, Str(final))
    /\ segStart' = Append(segStart, Len(output))
    /\ pc' = "done"
    /\ UNCHANGED <<baselist, variantlist, annotationlist, langtag, applist, annolist, idx,
                   join_next, translation, err, fn_in, fn_out>>

Next == MakeApplookup \/ MakeAnnolookup \/ GenBegin \/ GenStep \/ GenFinish

----------------------------------------------------------------------------
(* Inputs of the script.                                                   *)

BaseText(i) == CASE i = 1 -> "the" [] i = 2 -> "dog" [] OTHER -> "runs"

Rdg(i) == [id |-> FormatD(i), text |-> BaseText(i), rank |-> i]

SeqsUpTo(S, n) == UNION {[1..k -> S] : k \in 0..n}

PlainBases == {[i \in 1..n |-> Rdg(i)] : n \in 0..MaxBase}

\* The join flags a base reading may carry.
JoinFlags == {<<>>, [join_prior |-> TRUE], [join_next |-> TRUE]}

FlaggedBases ==
    UNION {{[i \in 1..n |-> Rdg(i) @@ f[i]] : f \in [1..n -> JoinFlags]} : n \in 0..MaxJoinBase}

\* A reading that is in no base list of the model.
OrphanRdg == Rdg(7)

Vsub == [base |-> <<Rdg(1), Rdg(2)>>,
         variants |-> <<[readings |-> <<[text |-> "cat", rank |-> 2]>>,
                         witnesses |-> [witnesses |-> <<"A">>]]>>]

Vadd == [before |-> Rdg(1), after |-> Rdg(2),
         variants |-> <<[readings |-> <<[text |-> "big", rank |-> 2]>>,
                         witnesses |-> [witnesses |-> <<"B">>, corr |-> <<"A">>]]>>]

Vorphan == [base |-> <<OrphanRdg>>,
            variants |-> <<[witnesses |-> [witnesses |-> <<"B", "A">>]]>>]

VariantLocations == {Vsub, Vadd, Vorphan}

Link(t, n) == [type |-> t, target |-> n]

Ann(label, links, text) == [label |-> label, links |-> links, properties |-> [text |-> text]]

C12 == Ann(COMMENT, <<Link(BEGIN, 1), Link(END, 2)>>, "note12")
C11 == Ann(COMMENT, <<Link(BEGIN, 1), Link(END, 1)>>, "note11")
T1 == Ann(TRANSLATION, <<Link(BEGIN, 1), Link(END, 1)>>, "hello")
T1b == Ann(TRANSLATION, <<Link(END, 1)>>, "salut")
T2 == Ann(TRANSLATION, <<Link(END, 2), Link(BEGIN, 1)>>, "world")
NoEnd == Ann(TRANSLATION, <<Link(BEGIN, 1)>>, "lost")
NoBegin == Ann(COMMENT, <<Link(END, 2)>>, "bad")

Annotations == {C12, C11, T1, T1b, T2, NoEnd, NoBegin}

InitScript ==
    /\ pc = "applookup"
    /\ applist = <<>>
    /\ annolist = <<>>
    /\ idx = 0
    /\ output = <<>>
    /\ join_next = FALSE
    /\ translation = <<>>
    /\ segStart = <<>>
    /\ stdout = <<>>
    /\ err = ""
    /\ fn_in = <<>>
    /\ fn_out = <<>>

Init ==
    /\ InitScript
    /\ langtag = None
    /\ \/ /\ baselist \in PlainBases
          /\ variantlist \in SeqsUpTo(VariantLocations, MaxVar)
          /\ annotationlist \in SeqsUpTo(Annotations, MaxAnn)
       \/ /\ baselist \in FlaggedBases
          /\ variantlist \in {<<>>, <<Vsub>>}
          /\ annotationlist \in {<<>>, <<C11>>, <<T1>>}

Spec == Init /\ [][Next]_vars

----------------------------------------------------------------------------
(* The pure functions, each called once on inputs drawn from bounded sets. *)

InitCall(position) ==
    /\ pc = position
    /\ baselist = <<>>
    /\ variantlist = <<>>
    /\ annotationlist = <<>>
    /\ langtag = None
    /\ applist = <<>>
    /\ annolist = <<>>
    /\ idx = 0
    /\ output = <<>>
    /\ join_next = FALSE
    /\ translation = <<>>
    /\ segStart = <<>>
    /\ stdout = <<>>
    /\ err = ""
    /\ fn_out = <<>>

Return(value) ==
    /\ fn_out' = Some(value)
    /\ pc' = "return"
    /\ UNCHANGED <<baselist, variantlist, annotationlist, langtag, applist, annolist, idx,
                   output, join_next, translation, segStart, stdout, err, fn_in>>

NonEmptySeqsUpTo(S, n) == UNION {[1..k -> S] : k \in 1..n}

\* _lwrap(langtag, *rdgs)
AllJoinFlags == JoinFlags \cup {[join_prior |-> TRUE, join_next |-> TRUE]}

LwrapReadings ==
    {[text |-> t] @@ f : t \in {"", "a"}, f \in AllJoinFlags}
        \cup {[text |-> "x", normal_form |-> "b"], [text |-> NonAsciiText]}

InitLwrap ==
    /\ InitCall("call_lwrap")
    /\ fn_in \in {None, Some("greek")} \X NonEmptySeqsUpTo(LwrapReadings, MaxRdgs)

CallLwrap ==
    /\ pc = "call_lwrap"
    /\ Return(_lwrap(fn_in[1], fn_in[2]))

SpecLwrap == InitLwrap /\ [][CallLwrap]_vars

\* _get_vreadings(vloc, langtag, special), with special as generate_latex sets it
VariantAnchor == [text |-> "anc", rank |-> 2]

VariantReadings == {<<[text |-> "r" \o FormatD(k), rank |-> k], [text |-> "s", rank |-> 9]>> : k \in 1..3}

VariantShapes ==
    {[witnesses |-> [witnesses |-> <<"A">>], anchor |-> VariantAnchor] @@ rd @@ d :
        rd \in {<<>>} \cup {[readings |-> x] : x \in VariantReadings},
        d \in {<<>>, [displaced |-> TRUE]}}

VlocShapes ==
    {[variants |-> vs] @@ b @@ h :
        vs \in NonEmptySeqsUpTo(VariantShapes, MaxVariants),
        b \in {[base |-> <<Rdg(1)>>], [before |-> Rdg(1), after |-> Rdg(2)]},
        h \in {<<>>, [has_displacement |-> TRUE]}}

InitVreadings ==
    /\ InitCall("call_vreadings")
    /\ fn_in \in VlocShapes \X {None}

CallVreadings ==
    /\ pc = "call_vreadings"
    /\ Return(_get_vreadings(fn_in[1], fn_in[2], Special(fn_in[1])))

SpecVreadings == InitVreadings /\ [][CallVreadings]_vars

\* _get_rdgspan(baselist, annotation)
SpanBases == {[i \in 1..n |-> Rdg(i)] : n \in 0..MaxSpanBase}

SpanTargets == (1..MaxSpanBase) \cup {OrphanRdg.rank}

SpanComments ==
    {Ann(COMMENT, <<Link(BEGIN, b), Link(END, e)>>, "note") : b \in SpanTargets, e \in SpanTargets}
        \cup {Ann(COMMENT, <<Link(END, e)>>, "note") : e \in SpanTargets}

InitRdgspan ==
    /\ InitCall("call_rdgspan")
    /\ fn_in \in SpanBases \X SpanComments

CallRdgspan ==
    /\ pc = "call_rdgspan"
    /\ Return(_get_rdgspan(fn_in[1], fn_in[2]))

SpecRdgspan == InitRdgspan /\ [][CallRdgspan]_vars

----------------------------------------------------------------------------
(* What a state shows of the assembler's work.                             *)

Range(f) == {f[i] : i \in DOMAIN f}

\* Base reading i has been processed by the loop.
Processed(i) == i \in DOMAIN segStart /\ i \in DOMAIN baselist

SegEnd(i) == IF i < Len(segStart) THEN segStart[i + 1] ELSE Len(output)

\* The pieces the loop appended to output for base reading i.
Segment(i) == SubSeq(output, segStart[i] + 1, SegEnd(i))

Spaced(i) == Segment(i) # <<>> /\ Head(Segment(i)) = " "

Emitted(i) == IF Spaced(i) THEN Tail(Segment(i)) ELSE Segment(i)

\* The anchor id of a variant location, as the specification words it.
SpecAnchor(v) == IF "base" \in DOMAIN v THEN v.base[Len(v.base)].id ELSE v.after.id

EndsAt(a, id) == \E k \in DOMAIN a.links : a.links[k].type = END /\ FormatD(a.links[k].target) = id

VariantsAt(id) == SelectSeq(variantlist, LAMBDA v : SpecAnchor(v) = id)
CommentsAt(id) == SelectSeq(annotationlist, LAMBDA a : a.label = COMMENT /\ EndsAt(a, id))
TranslationsAt(id) == SelectSeq(annotationlist, LAMBDA a : a.label = TRANSLATION /\ EndsAt(a, id))

Count(s, x) == Cardinality({k \in DOMAIN s : s[k] = x})

----------------------------------------------------------------------------
(* C1: a processed base reading is emitted plain (its rendered text and      *)
(* nothing else) iff no variant location is anchored at its id and no        *)
(* COMMENT annotation ends at its id; otherwise it is emitted exactly once,  *)
(* as the first argument of one \edtext wrapper.                             *)
C1_PlainIffNoApparatus ==
    \A i \in DOMAIN baselist : Processed(i) =>
        LET r == baselist[i]
            text == _lwrap(langtag, <<r>>)
            open == "\\edtext{" \o text \o "}{"
            bare == VariantsAt(r.id) = <<>> /\ CommentsAt(r.id) = <<>>
        IN /\ (Emitted(i) = <<text>>) <=> bare
           /\ ~bare => /\ Len(Emitted(i)) >= 3
                       /\ Head(Emitted(i)) = open
                       /\ Emitted(i)[Len(Emitted(i))] = "}"
                       /\ Count(Emitted(i), open) = 1
                       /\ Count(Emitted(i), text) = 0

\* A run in which a reading where only a translation ends was emitted plain and a
\* reading where a comment ends was wrapped.
C1_Witness ==
    /\ pc = "done"
    /\ \E i \in DOMAIN baselist :
          /\ TranslationsAt(baselist[i].id) # <<>>
          /\ VariantsAt(baselist[i].id) = <<>>
          /\ Emitted(i) = <<baselist[i].text>>
    /\ \E j \in DOMAIN baselist :
          /\ CommentsAt(baselist[j].id) # <<>>
          /\ Len(Emitted(j)) >= 3

----------------------------------------------------------------------------
\* The pieces of the left (edited-text) stream: what the loop appended.
LeftStream == SubSeq(output, 2, segStart[Len(segStart)])

(* C2, as stated: with an empty annotation list the output is the left       *)
(* stream alone, in no parallel-text structure; the base sequence the, dog   *)
(* without variants or annotations prints exactly `the dog`.                 *)
C2_BasicMode ==
    pc = "done" /\ annotationlist = <<>> =>
        /\ stdout = <<Str(LeftStream)>>
        /\ (baselist = <<Rdg(1), Rdg(2)>> /\ variantlist = <<>>) => stdout = <<"the dog">>

(* C2, amended: with an empty annotation list generate_latex still prints    *)
(* the parallel-text structure: the pairs/Leftside header, the left stream,  *)
(* and a Rightside block whose translation stream is empty; and a reading    *)
(* is wrapped only where a variant location is anchored.                     *)
C2_EmptyRightSide ==
    pc = "done" /\ annotationlist = <<>> =>
        /\ stdout = <<Header \o Str(LeftStream) \o Middle \o "" \o Footer>>
        /\ \A i \in DOMAIN baselist :
              VariantsAt(baselist[i].id) = <<>> => Emitted(i) = <<baselist[i].text>>

\* The run over the, dog with no variants and no annotations has printed.
C2_Witness ==
    /\ pc = "done"
    /\ baselist = <<Rdg(1), Rdg(2)>>
    /\ variantlist = <<>>
    /\ annotationlist = <<>>
    /\ Len(stdout) = 1

----------------------------------------------------------------------------
(* C3, as stated: when more than one TRANSLATION annotation ends at the      *)
(* reading being processed, the run ends with an error whose message is      *)
(* "Multiple translations terminating at reading <id>"; no reading with more *)
(* than one is ever processed, and with zero or one no such error is raised. *)
C3_DescriptiveError ==
    /\ \A i \in DOMAIN baselist :
          Processed(i) => Len(TranslationsAt(baselist[i].id)) <= 1
    /\ (pc = "error" /\ Len(TranslationsAt(baselist[idx].id)) > 1) =>
          err = "Multiple translations terminating at reading " \o baselist[idx].id
    /\ (pc = "error" /\ Len(TranslationsAt(baselist[idx].id)) <= 1) =>
          \E k \in DOMAIN annotationlist : annotationlist[k] = NoBegin

----------------------------------------------------------------------------
(* C4: the output is printed at most once, and only after every base reading *)
(* has been processed; a run that ended with an error has printed nothing.   *)
C4_NoPartialOutput ==
    /\ Len(stdout) <= 1
    /\ stdout # <<>> =>
          /\ pc = "done"
          /\ err = ""
          /\ \A i \in DOMAIN baselist : Processed(i)
          /\ Len(translation) = Len(baselist)
    /\ pc = "error" => stdout = <<>>

\* A run that failed at its second reading, after the first was processed.
C4_Witness ==
    /\ pc = "error"
    /\ idx = 2
    /\ Processed(1)
    /\ err # ""
    /\ stdout = <<>>

----------------------------------------------------------------------------
\* The translation fragments the specification asks for, from reading i on.
RECURSIVE FragmentsFrom(_)
FragmentsFrom(i) ==
    IF i > Len(baselist) THEN <<>>
    ELSE LET here == TranslationsAt(baselist[i].id) IN
         (IF Len(here) = 1 THEN <<here[1].properties.text>> ELSE <<>>) \o FragmentsFrom(i + 1)

(* C5: the right side of the printed output is exactly the texts of the      *)
(* TRANSLATION annotations, one for each base reading at which exactly one   *)
(* ends, in base order whatever the order of the annotation list; other      *)
(* readings and COMMENT annotations contribute nothing.                      *)
C5_TranslationStream ==
    pc = "done" =>
        stdout = <<Header \o Str(LeftStream) \o Middle
                     \o JoinStr(" ", FragmentsFrom(1)) \o Footer>>

\* A finished run whose annotation list names the translation of the second
\* reading before that of the first: the right side is in base order.
C5_Witness ==
    /\ pc = "done"
    /\ Len(annotationlist) >= 2
    /\ annotationlist[1] = T2
    /\ annotationlist[2] \in {T1, T1b}
    /\ Len(FragmentsFrom(1)) = 2
    /\ output[Len(output) - 1] \in {"hello world", "salut world"}

----------------------------------------------------------------------------
BaseIds == {baselist[i].id : i \in DOMAIN baselist}

AfootPieces == {AfootPiece(v, langtag) : v \in Range(variantlist)}

(* C6: make_applookup maps each anchor id (last reading of `base`, else the  *)
(* `after` reading) to exactly the variant locations anchored there, in      *)
(* input order, and holds no empty bucket; the \Afootnote blocks emitted at  *)
(* a base reading are those locations, one block each in that order; a       *)
(* location anchored at no base reading is never emitted and raises nothing. *)
C6_VariantAnchoring ==
    /\ pc # "applookup" =>
          /\ DOMAIN applist = {SpecAnchor(v) : v \in Range(variantlist)}
          /\ \A id \in DOMAIN applist : applist[id] = VariantsAt(id) /\ applist[id] # <<>>
    /\ \A i \in DOMAIN baselist : Processed(i) =>
          LET here == VariantsAt(baselist[i].id) IN
          SelectSeq(Emitted(i), LAMBDA x : x \in AfootPieces)
              = [k \in DOMAIN here |-> AfootPiece(here[k], langtag)]
    /\ \A v \in Range(variantlist) :
          SpecAnchor(v) \notin BaseIds => AfootPiece(v, langtag) \notin Range(output)
    /\ annotationlist = <<>> => pc # "error"

\* A finished run with two different locations sharing an anchor that is a base
\* reading: the reading was emitted with the two blocks.
C6_Witness ==
    /\ pc = "done"
    /\ annotationlist = <<>>
    /\ \E i \in DOMAIN baselist :
          /\ Len(VariantsAt(baselist[i].id)) = 2
          /\ VariantsAt(baselist[i].id)[1] # VariantsAt(baselist[i].id)[2]
          /\ Len(applist[baselist[i].id]) = 2
          /\ Len(Emitted(i)) = 4

----------------------------------------------------------------------------
(* C9, as stated: the assembler puts a space before base reading i exactly   *)
(* when the Reading Renderer would: never before the first reading, never    *)
(* before a join_prior reading, never after a join_next reading, and         *)
(* otherwise one space.                                                      *)
C9_DocumentSpacing ==
    \A i \in DOMAIN baselist : Processed(i) =>
        (Spaced(i) <=> /\ i > 1
                       /\ ~Get(baselist[i], "join_prior", FALSE)
                       /\ ~Get(baselist[i - 1], "join_next", FALSE))

----------------------------------------------------------------------------
\* The display text of a reading: normal_form when present, else text.
Display(r) == IF "normal_form" \in DOMAIN r THEN r.normal_form ELSE r.text

\* Concatenation of the display texts, with a space before token i where sp[i].
RECURSIVE Spread(_, _, _)
Spread(rdgs, sp, i) ==
    IF i > Len(rdgs) THEN ""
    ELSE (IF sp[i] THEN " " ELSE "") \o Display(rdgs[i]) \o Spread(rdgs, sp, i + 1)

Tagged(tag, text) == {text} \cup (IF tag = None THEN {} ELSE {"\\" \o tag[1] \o "{" \o text \o "}"})

(* C7, as stated: _lwrap puts a single space before a token exactly when it  *)
(* is not the first token, it does not declare join_prior and the previous   *)
(* token did not declare join_next, whatever the display texts (empty ones   *)
(* included).                                                                *)
C7_SpaceUnlessFirst ==
    pc = "return" =>
        LET rdgs == fn_in[2]
            sp == [i \in DOMAIN rdgs |-> /\ i > 1
                                         /\ ~Get(rdgs[i], "join_prior", FALSE)
                                         /\ ~Get(rdgs[i - 1], "join_next", FALSE)]
        IN fn_out[1] \in Tagged(fn_in[1], Spread(rdgs, sp, 1))

(* C7, amended: _lwrap puts a single space before a token exactly when some  *)
(* earlier token has a non-empty display text (the text rendered so far is   *)
(* not empty), it does not declare join_prior and the previous token did not *)
(* declare join_next; so no space precedes a join_prior token or follows a   *)
(* join_next token, and a single reading is rendered with no added space.    *)
C7_SpaceUnlessEmptySoFar ==
    pc = "return" =>
        LET rdgs == fn_in[2]
            sp == [i \in DOMAIN rdgs |-> /\ \E k \in 1..(i - 1) : Display(rdgs[k]) # ""
                                         /\ ~Get(rdgs[i], "join_prior", FALSE)
                                         /\ ~Get(rdgs[i - 1], "join_next", FALSE)]
        IN /\ fn_out[1] \in Tagged(fn_in[1], Spread(rdgs, sp, 1))
           /\ fn_in[1] = None => fn_out[1] = Spread(rdgs, sp, 1)
           /\ Len(rdgs) = 1 => fn_out[1] \in Tagged(fn_in[1], Display(rdgs[1]))

\* _lwrap has rendered a reading with empty display text followed by an unflagged
\* reading, and a join_next reading followed by another one.
C7_Witness ==
    /\ pc = "return"
    /\ fn_in[1] = None
    /\ Len(fn_in[2]) = 3
    /\ fn_in[2][1] = [text |-> ""]
    /\ fn_in[2][2] = [text |-> "a", join_next |-> TRUE]
    /\ fn_in[2][3] = [text |-> "a"]
    /\ fn_out = <<"aa">>

----------------------------------------------------------------------------
SpecClass(vloc) ==
    IF "base" \notin DOMAIN vloc THEN "add"
    ELSE IF "has_displacement" \in DOMAIN vloc /\ vloc.has_displacement THEN "transp"
    ELSE "ordinary"

SpecBody(v, tag, class) ==
    IF "readings" \notin DOMAIN v THEN "\\emph{om.}"
    ELSE IF class = "transp" /\ "displaced" \in DOMAIN v /\ v.displaced
    THEN (IF v.readings[1].rank < v.anchor.rank
          THEN "\\emph{transp. prae} " ELSE "\\emph{transp. post} ") \o _lwrap(tag, <<v.anchor>>)
    ELSE _lwrap(tag, v.readings)

(* C8: a location is `add` iff it has no base, else `transp` iff             *)
(* has_displacement, else ordinary. A variant's body is \emph{om.} when it   *)
(* has no readings; else, for a displaced variant of a transp location,      *)
(* transp. prae if its first reading's rank is strictly below the anchor's   *)
(* and transp. post otherwise, followed by the anchor reading; else its      *)
(* rendered readings. \emph{add.} follows every body exactly for `add`, and  *)
(* the variants are joined by "; " in input order.                           *)
C8_VariantBodies ==
    pc = "return" =>
        LET vloc == fn_in[1]
            class == SpecClass(vloc)
            entry(v) == _make_witstr(v.witnesses) \o " " \o SpecBody(v, fn_in[2], class)
                            \o (IF class = "add" THEN " \\emph{add.}" ELSE "")
        IN fn_out[1] = JoinStr("; ", [i \in DOMAIN vloc.variants |-> entry(vloc.variants[i])])

\* _get_vreadings has rendered a transp location with a displaced variant whose
\* first reading has the anchor's rank, next to a variant without readings.
C8_Witness ==
    /\ pc = "return"
    /\ SpecClass(fn_in[1]) = "transp"
    /\ Len(fn_in[1].variants) = 2
    /\ "readings" \notin DOMAIN fn_in[1].variants[1]
    /\ "readings" \in DOMAIN fn_in[1].variants[2]
    /\ "displaced" \in DOMAIN fn_in[1].variants[2]
    /\ fn_in[1].variants[2].readings[1].rank = fn_in[1].variants[2].anchor.rank
    /\ fn_out = <<"A \\emph{om.}; A \\emph{transp. post} anc">>

----------------------------------------------------------------------------
Positions(base, n) == {i \in DOMAIN base : base[i].id = FormatD(n)}

(* C10, as stated: the span of a comment that ends at a base reading is      *)
(* exactly the run of base readings from its BEGIN target through its END    *)
(* target, inclusive, wherever BEGIN lies; no reading before BEGIN or after  *)
(* END is part of it.                                                        *)
C10_SpanWithinBeginEnd ==
    (pc = "return" /\ fn_out[1].raised = "") =>
        LET base == fn_in[1]
            span == fn_out[1].value
            bs == Positions(base, _get_target(fn_in[2].links, BEGIN)[1])
            es == Positions(base, _get_target(fn_in[2].links, END)[1])
        IN es # {} =>
              /\ \A b \in bs, e \in es : b <= e => span = SubSeq(base, b, e)
              /\ \A k \in DOMAIN span : \A i \in DOMAIN base : base[i] = span[k] =>
                    /\ \A e \in es : i <= e
                    /\ \A b \in bs : i >= b

====
